---- MODULE Spec2Model ----
(***************************************************************************)
(* Model of brainsmash/neuro/cifti.py.                                     *)
(*                                                                         *)
(* Two components are modelled:                                            *)
(*   - make_fs_key, the pure function that builds a FreeSurfer structure   *)
(*     name from a structure and a hemisphere (SpecNamer);                 *)
(*   - export_cifti_mapping, which runs wb_command three times, writing    *)
(*     volume.txt, left.txt and right.txt in the temporary directory, and  *)
(*     loads the three files with pandas.read_table (SpecExport).          *)
(*                                                                         *)
(* A Python str is a sequence of characters; a character is a one-letter   *)
(* TLA+ string, so that str.upper and str.lower can be computed.           *)
(***************************************************************************)
EXTENDS Integers, Sequences, FiniteSets, TLC

(***************************************************************************)
(* Characters and the str methods used by make_fs_key                      *)
(***************************************************************************)

AsciiLower ==
    <<"a", "b", "c", "d", "e", "f", "g", "h", "i", "j", "k", "l", "m", "n",
    "o", "p", "q", "r", "s", "t", "u", "v", "w", "x", "y", "z">>

AsciiUpper ==
    <<"A", "B", "C", "D", "E", "F", "G", "H", "I", "J", "K", "L", "M", "N",
    "O", "P", "Q", "R", "S", "T", "U", "V", "W", "X", "Y", "Z">>

\* U+017F, LATIN SMALL LETTER LONG S: a lowercase letter outside ASCII whose
\* uppercase is the ASCII letter S (Python: 'ſ'.upper() == 'S',
\* 'ſ'.lower() == 'ſ').
LongS == "LONG_S"

\* Position of character c in the alphabet t, 0 when c is not in it.
IndexIn(c, t) ==
    IF \E i \in DOMAIN t : t[i] = c
    THEN CHOOSE i \in DOMAIN t : t[i] = c
    ELSE 0

\* str.upper on one character.
upperChar(c) ==
    IF IndexIn(c, AsciiLower) # 0 THEN AsciiUpper[IndexIn(c, AsciiLower)]
    ELSE IF c = LongS THEN "S"
    ELSE c

\* str.lower on one character.
lowerChar(c) ==
    IF IndexIn(c, AsciiUpper) # 0 THEN AsciiLower[IndexIn(c, AsciiUpper)]
    ELSE c

\* str.upper()
upper(s) == [i \in DOMAIN s |-> upperChar(s[i])]

\* str.lower()
lower(s) == [i \in DOMAIN s |-> lowerChar(s[i])]

\* x in list
In(x, list) == \E i \in DOMAIN list : list[i] = x

(***************************************************************************)
(* Module constants                                                        *)
(***************************************************************************)

\* Gross anatomical structure names
structures ==
    << <<"d", "i", "e", "n", "c", "e", "p", "h", "a", "l", "o", "n", "_",
         "v", "e", "n", "t", "r", "a", "l">>,
       <<"b", "r", "a", "i", "n", "_", "s", "t", "e", "m">>,
       <<"t", "h", "a", "l", "a", "m", "u", "s">>,
       <<"c", "e", "r", "e", "b", "e", "l", "l", "u", "m">>,
       <<"h", "i", "p", "p", "o", "c", "a", "m", "p", "u", "s">>,
       <<"p", "a", "l", "l", "i", "d", "u", "m">>,
       <<"a", "c", "c", "u", "m", "b", "e", "n", "s">>,
       <<"p", "u", "t", "a", "m", "e", "n">>,
       <<"a", "m", "y", "g", "d", "a", "l", "a">>,
       <<"c", "a", "u", "d", "a", "t", "e">>,
       <<"c", "o", "r", "t", "e", "x">> >>

\* FreeSurfer anatomical structure names
freesurfer_structures ==
    << <<"B", "R", "A", "I", "N", "_", "S", "T", "E", "M">>,
       <<"D", "I", "E", "N", "C", "E", "P", "H", "A", "L", "O", "N", "_",
         "V", "E", "N", "T", "R", "A", "L", "_", "L", "E", "F", "T">>,
       <<"D", "I", "E", "N", "C", "E", "P", "H", "A", "L", "O", "N", "_",
         "V", "E", "N", "T", "R", "A", "L", "_", "R", "I", "G", "H", "T">>,
       <<"T", "H", "A", "L", "A", "M", "U", "S", "_", "L", "E", "F", "T">>,
       <<"T", "H", "A", "L", "A", "M", "U", "S", "_", "R", "I", "G", "H",
         "T">>,
       <<"C", "E", "R", "E", "B", "E", "L", "L", "U", "M", "_", "L", "E",
         "F", "T">>,
       <<"C", "E", "R", "E", "B", "E", "L", "L", "U", "M", "_", "R", "I",
         "G", "H", "T">>,
       <<"H", "I", "P", "P", "O", "C", "A", "M", "P", "U", "S", "_", "L",
         "E", "F", "T">>,
       <<"H", "I", "P", "P", "O", "C", "A", "M", "P", "U", "S", "_", "R",
         "I", "G", "H", "T">>,
       <<"P", "A", "L", "L", "I", "D", "U", "M", "_", "L", "E", "F", "T">>,
       <<"P", "A", "L", "L", "I", "D", "U", "M", "_", "R", "I", "G", "H",
         "T">>,
       <<"A", "C", "C", "U", "M", "B", "E", "N", "S", "_", "L", "E", "F",
         "T">>,
       <<"A", "C", "C", "U", "M", "B", "E", "N", "S", "_", "R", "I", "G",
         "H", "T">>,
       <<"P", "U", "T", "A", "M", "E", "N", "_", "L", "E", "F", "T">>,
       <<"P", "U", "T", "A", "M", "E", "N", "_", "R", "I", "G", "H", "T">>,
       <<"A", "M", "Y", "G", "D", "A", "L", "A", "_", "L", "E", "F", "T">>,
       <<"A", "M", "Y", "G", "D", "A", "L", "A", "_", "R", "I", "G", "H",
         "T">>,
       <<"C", "A", "U", "D", "A", "T", "E", "_", "L", "E", "F", "T">>,
       <<"C", "A", "U", "D", "A", "T", "E", "_", "R", "I", "G", "H", "T">>,
       <<"C", "O", "R", "T", "E", "X", "_", "L", "E", "F", "T">>,
       <<"C", "O", "R", "T", "E", "X", "_", "R", "I", "G", "H", "T">> >>

\* Python's None.  It is a one-element tuple holding a token that is not a
\* character, so that it can be compared with any str.
None == <<"<None>">>

left == <<"l", "e", "f", "t">>
right == <<"r", "i", "g", "h", "t">>
BRAIN_STEM == <<"B", "R", "A", "I", "N", "_", "S", "T", "E", "M">>

(***************************************************************************)
(* make_fs_key                                                             *)
(***************************************************************************)

\* The function returned the label s.
Return(s) == [ok |-> TRUE, label |-> s, line |-> 0]

\* The assert statement at the given source line raised AssertionError.
AssertionError(line) == [ok |-> FALSE, label |-> None, line |-> line]

\* make_fs_key that forgets to lower-case the hemisphere before testing it.
make_fs_key_hemisphere_as_given(structure, hemisphere) ==
    IF ~In(lower(structure), structures) THEN AssertionError(58)
    ELSE LET h == hemisphere
         IN  IF h \notin {left, right, None} THEN AssertionError(61)
             ELSE LET s == upper(structure)
                  IN  IF h # None
                      THEN IF s = BRAIN_STEM THEN AssertionError(64)
                           ELSE Return(s \o <<"_">> \o upper(h))
                      ELSE IF s # BRAIN_STEM THEN AssertionError(67)
                           ELSE Return(s)

\* make_fs_key without its last two assertions, the ones that tie brain_stem
\* to the absence of a hemisphere.
make_fs_key_unpaired(structure, hemisphere) ==
    IF ~In(lower(structure), structures) THEN AssertionError(58)
    ELSE LET h == IF hemisphere # None THEN lower(hemisphere) ELSE None
         IN  IF h \notin {left, right, None} THEN AssertionError(61)
             ELSE LET s == upper(structure)
                  IN  IF h # None
                      THEN Return(s \o <<"_">> \o upper(h))
                      ELSE Return(s)

\* make_fs_key without the assertion on the hemisphere.
make_fs_key_any_hemisphere(structure, hemisphere) ==
    IF ~In(lower(structure), structures) THEN AssertionError(58)
    ELSE LET h == IF hemisphere # None THEN lower(hemisphere) ELSE None
         IN  LET s == upper(structure)
             IN  IF h # None
                 THEN IF s = BRAIN_STEM THEN AssertionError(64)
                      ELSE Return(s \o <<"_">> \o upper(h))
                 ELSE IF s # BRAIN_STEM THEN AssertionError(67)
                      ELSE Return(s)

\* make_fs_key that appends the same suffix for both hemispheres.
make_fs_key_one_suffix(structure, hemisphere) ==
    IF ~In(lower(structure), structures) THEN AssertionError(58)
    ELSE LET h == IF hemisphere # None THEN lower(hemisphere) ELSE None
         IN  IF h \notin {left, right, None} THEN AssertionError(61)
             ELSE LET s == upper(structure)
                  IN  IF h # None
                      THEN IF s = BRAIN_STEM THEN AssertionError(64)
                           ELSE Return(s \o <<"_">> \o upper(left))
                      ELSE IF s # BRAIN_STEM THEN AssertionError(67)
                           ELSE Return(s)

\* make_fs_key(structure, hemisphere): the label returned, or the assertion
\* that failed.
make_fs_key(structure, hemisphere) ==
    IF ~In(lower(structure), structures) THEN AssertionError(58)
    ELSE LET h == IF hemisphere # None THEN lower(hemisphere) ELSE None
         IN  IF h \notin {left, right, None} THEN AssertionError(61)
             ELSE LET s == upper(structure)
                  IN  IF h # None
                      THEN IF s = BRAIN_STEM THEN AssertionError(64)
                           ELSE Return(s \o <<"_">> \o upper(h))
                      ELSE IF s # BRAIN_STEM THEN AssertionError(67)
                           ELSE Return(s)

(***************************************************************************)
(* export_cifti_mapping: the files, the tool and the table parser          *)
(***************************************************************************)

\* Number of calls of export_cifti_mapping in a run.
MaxCalls == 2

\* The calls, numbered in the order in which they start.
Calls == 1..MaxCalls

\* The callers: two threads (or processes) that share the temporary
\* directory.  Each makes one call at a time, so at most two calls overlap.
Threads == {"t1", "t2"}

\* The default image of brainsmash/config.py.
parcel_labels_lr == "parcel_labels_lr"

\* Another image a caller may pass.
other_image == "other.dscalar.nii"

\* The image argument of a call: a path, or "None".
ImageArgs == {"None", other_image}

\* The three temporary files, in the order in which the tool is run on them,
\* which is also the order in which they are read.
FileNames == <<"volume.txt", "left.txt", "right.txt">>

\* A file that does not exist.
Absent == [rows |-> <<>>, by |-> 0, image |-> "-"]

\* The path call c would use for file name f, had every call its own
\* temporary files.
path_per_call(c, f) == <<c, f>>

\* The path, in the temporary directory, that call c uses for file name f:
\* join(tempdir, f), the same for every call.
path(c, f) == f

Paths == {path(c, FileNames[i]) : c \in Calls, i \in DOMAIN FileNames}

\* The key of maps under which the table read from file number i is stored.
Keys == <<"subcortex", "cortex_left", "cortex_right">>

\* The column names given to read_table for file number i.
Names ==
    << <<"structure", "mni_i", "mni_j", "mni_k">>, <<"vertex">>, <<"vertex">> >>

\* What an image holds: the vertices of the left and of the right cortex that
\* have data, and the voxels of the subcortex with their structure.
Brainordinates(image) ==
    IF image = parcel_labels_lr
    THEN [left |-> <<0, 2>>, right |-> <<1, 2, 3>>,
          voxels |-> << <<"THALAMUS_LEFT", 4, 5, 6>> >>]
    ELSE [left |-> <<7>>, right |-> <<7, 9>>,
          voxels |-> << <<"BRAIN_STEM", 1, 2, 3>>, <<"BRAIN_STEM", 1, 2, 4>> >>]

\* The lines wb_command -cifti-export-dense-mapping writes for an image into
\* file number i, each line a tuple of fields starting with the CIFTI index:
\* the left cortex comes first in the index, then the right cortex, then the
\* subcortex.
ToolOutput(image, i) ==
    LET b == Brainordinates(image)
        nl == Len(b.left)
        nr == Len(b.right)
    IN  CASE i = 1 -> [k \in DOMAIN b.voxels |-> <<nl + nr + k - 1>> \o b.voxels[k]]
          [] i = 2 -> [k \in DOMAIN b.left |-> <<k - 1, b.left[k]>>]
          [] i = 3 -> [k \in DOMAIN b.right |-> <<nl + k - 1, b.right[k]>>]

\* The value of a failed pd.read_table.
NoTable == [columns |-> <<>>, index_name |-> "", rows |-> <<>>, by |-> 0,
            image |-> "-"]

\* read_table that takes the first line of the file as a header.
read_table_header(content, names) ==
    [columns |-> names,
     index_name |-> "index",
     rows |-> [k \in 1..(Len(content.rows) - 1) |->
                 [index |-> content.rows[k + 1][1],
                  values |-> Tail(content.rows[k + 1])]],
     by |-> content.by,
     image |-> content.image]

\* pd.read_table(file, header=None, index_col=0, sep=' ', names=names)
\*   .rename_axis('index') on a file that exists: one row per line, keyed by
\* the first field, the other fields under the given names.  by and image
\* remember which call's tool wrote the content, and for which image.
read_table(content, names) ==
    [columns |-> names,
     index_name |-> "index",
     rows |-> [k \in DOMAIN content.rows |->
                 [index |-> content.rows[k][1],
                  values |-> Tail(content.rows[k])]],
     by |-> content.by,
     image |-> content.image]

VARIABLES
    pc,         \* pc[t]: where the call of thread t is: [at |-> "idle" |
                \*   "system" | "wait" | "read" | "returned" | "failed",
                \*   file |-> number of the file the step is about (0: none)]
    id,         \* id[t]: the number of the call thread t is making or made
    arg,        \* arg[t]: the image argument of that call
    image,      \* image[t]: its local variable image
    maps,       \* maps[t]: its local dict maps
    raised,     \* raised[t]: the exception that ended it, or "none"
    files,      \* the temporary directory: path -> content
    tools,      \* the wb_command processes running: <<call, file number>>
    log,        \* log[t]: what the call of thread t did so far, in order
    latest,     \* latest[i]: the last content a tool wrote for file number i
    started,    \* number of calls started so far
    overlap     \* some call ran while another one was running

ex_vars ==
    <<pc, id, arg, image, maps, raised, files, tools, log, latest, started,
      overlap>>

At(k, i) == [at |-> k, file |-> i]

Active(t) == pc[t].at \in {"system", "wait", "read"}

\* Where a call is after it has started wb_command on file number i, had
\* os.system returned without waiting.
AfterSpawn_no_wait(i) ==
    IF i < Len(FileNames) THEN At("system", i + 1) ELSE At("read", 1)

\* Where a call is after it has started wb_command on file number i:
\* os.system blocks until the command exits.
AfterSpawn(i) == At("wait", i)

\* Where a call is after os.system has returned for file number i.
AfterSystem(i) ==
    IF i < Len(FileNames) THEN At("system", i + 1) ELSE At("read", 1)

\* The temporary directory after call c has loaded file number i, had the
\* function removed each file once loaded.
FilesAfterRead_remove(c, i) ==
    [files EXCEPT ![path(c, FileNames[i])] = Absent]

\* The temporary directory after call c has loaded file number i: nothing
\* is removed.
FilesAfterRead(c, i) == files

EmptyMaps == [k \in {} |-> NoTable]

InitExport ==
    /\ pc = [t \in Threads |-> At("idle", 0)]
    /\ id = [t \in Threads |-> 0]
    /\ arg = [t \in Threads |-> "None"]
    /\ image = [t \in Threads |-> "None"]
    /\ maps = [t \in Threads |-> EmptyMaps]
    /\ raised = [t \in Threads |-> "none"]
    /\ files = [p \in Paths |-> Absent]
    /\ tools = {}
    /\ log = [t \in Threads |-> <<>>]
    /\ latest = [i \in DOMAIN FileNames |-> Absent]
    /\ started = 0
    /\ overlap = FALSE

\* Thread t calls export_cifti_mapping(a): the paths are built and the
\* default image is taken when a is None (lines 98-107).  The threads being
\* interchangeable, t1 is the one that makes the first call.
Call(t, a) ==
    /\ ~Active(t)
    /\ started < MaxCalls
    /\ t = "t2" => started > 0
    /\ started' = started + 1
    /\ id' = [id EXCEPT ![t] = started + 1]
    /\ arg' = [arg EXCEPT ![t] = a]
    /\ image' = [image EXCEPT ![t] = IF a = "None" THEN parcel_labels_lr ELSE a]
    /\ maps' = [maps EXCEPT ![t] = EmptyMaps]
    /\ raised' = [raised EXCEPT ![t] = "none"]
    /\ log' = [log EXCEPT ![t] = <<>>]
    /\ pc' = [pc EXCEPT ![t] = At("system", 1)]
    /\ overlap' = (overlap \/ \E u \in Threads : Active(u))
    /\ UNCHANGED <<files, tools, latest>>

\* system(basecmd + ...): wb_command starts on the next file (lines 110, 113
\* and 116).
System(t) ==
    /\ pc[t].at = "system"
    /\ LET i == pc[t].file
       IN  /\ tools' = tools \cup {<<t, i>>}
           /\ log' = [log EXCEPT ![t] =
                        Append(@, [ev |-> "run", file |-> i, info |-> image[t]])]
           /\ pc' = [pc EXCEPT ![t] = AfterSpawn(i)]
    /\ UNCHANGED <<id, arg, image, maps, raised, files, latest, started,
                   overlap>>

\* The wb_command process that thread t started on file number i exits.  With
\* status 0 it has written its file; with another status it has written
\* nothing.  system returns and the status is dropped.
ToolExit(t, i, status) ==
    /\ <<t, i>> \in tools
    /\ tools' = tools \ {<<t, i>>}
    /\ LET content == [rows |-> ToolOutput(image[t], i), by |-> id[t],
                       image |-> image[t]]
       IN  /\ files' = IF status = 0
                       THEN [files EXCEPT ![path(id[t], FileNames[i])] = content]
                       ELSE files
           /\ latest' = IF status = 0 THEN [latest EXCEPT ![i] = content]
                        ELSE latest
    /\ log' = [log EXCEPT ![t] =
                 Append(@, [ev |-> "exit", file |-> i, info |-> status])]
    /\ pc' = IF pc[t] = At("wait", i)
             THEN [pc EXCEPT ![t] = AfterSystem(i)]
             ELSE pc
    /\ UNCHANGED <<id, arg, image, maps, raised, started, overlap>>

\* maps[key] = pd.read_table(file, ...) for the next file (lines 119, 123 and
\* 125); after the last one, return maps (line 129).  A file that does not
\* exist raises FileNotFoundError, which ends the call.
ReadTable(t) ==
    /\ pc[t].at = "read"
    /\ LET i == pc[t].file
           content == files[path(id[t], FileNames[i])]
       IN  IF content = Absent
           THEN /\ raised' = [raised EXCEPT ![t] = "FileNotFoundError"]
                /\ maps' = [maps EXCEPT ![t] = EmptyMaps]
                /\ pc' = [pc EXCEPT ![t] = At("failed", i)]
                /\ log' = [log EXCEPT ![t] =
                             Append(@, [ev |-> "read", file |-> i,
                                        info |-> "FileNotFoundError"])]
                /\ files' = files
           ELSE /\ maps' = [maps EXCEPT ![t] =
                              [k \in DOMAIN @ \cup {Keys[i]} |->
                                 IF k = Keys[i] THEN read_table(content, Names[i])
                                 ELSE @[k]]]
                /\ pc' = [pc EXCEPT ![t] =
                            IF i < Len(FileNames) THEN At("read", i + 1)
                            ELSE At("returned", 0)]
                /\ log' = [log EXCEPT ![t] =
                             Append(@, [ev |-> "read", file |-> i, info |-> "ok"])]
                /\ files' = FilesAfterRead(id[t], i)
                /\ raised' = raised
    /\ UNCHANGED <<id, arg, image, tools, latest, started, overlap>>

(***************************************************************************)
(* Callers of make_fs_key                                                  *)
(***************************************************************************)

\* Number of letter-casings tried for every name, besides the name as written.
MaxCasing == 2

\* ASCII capital of a character (used to enumerate casings of the inputs).
AsciiCap(c) ==
    IF IndexIn(c, AsciiLower) # 0 THEN AsciiUpper[IndexIn(c, AsciiLower)] ELSE c

\* Casing k of s: s as written when k = 0, else every k-th letter capital
\* (k = 1 is all capitals).
Casing(s, k) ==
    [i \in DOMAIN s |-> IF k > 0 /\ i % k = 0 THEN AsciiCap(s[i]) ELSE s[i]]

\* Names that are not structures.
OtherNames ==
    { <<"m", "a", "d", "e", "_", "u", "p", "_", "s", "t", "r", "u", "c", "t", "u", "r", "e">>,
      <<"b", "r", "a", "i", "n", "_", "LONG_S", "t", "e", "m">>,
      <<"c", "o", "r", "t", "e", "x", "_", "l", "e", "f", "t">>,
      <<"b", "r", "a", "i", "n", "s", "t", "e", "m">>,
      <<>> }

\* Strings that are not hemispheres.
OtherHemispheres ==
    { <<"b", "o", "t", "h">>,
      <<"n", "o", "n", "e">>,
      <<>> }

StructureInputs ==
    { Casing(n, k) : n \in {structures[i] : i \in DOMAIN structures} \cup OtherNames,
                     k \in 0..MaxCasing }

HemisphereInputs ==
    {None} \cup { Casing(n, k) : n \in {left, right} \cup OtherHemispheres,
                                 k \in 0..MaxCasing }

VARIABLES
    in_structure,    \* argument structure of the current call of make_fs_key
    in_hemisphere,   \* argument hemisphere of the current call
    nm_pc,           \* "call": called, not yet run; "returned"; "failed"
    out,             \* what the current call produced (NoResult before it ran)
    prev             \* an earlier call that returned (arguments in lower case
                     \* and label), or NoCall

nm_vars == <<in_structure, in_hemisphere, nm_pc, out, prev>>

vars == <<nm_vars, ex_vars>>

NoResult == [ok |-> FALSE, label |-> None, line |-> 0]
NoCall == [structure |-> None, hemisphere |-> None, label |-> None]

InitNamer ==
    /\ in_structure \in StructureInputs
    /\ in_hemisphere \in HemisphereInputs
    /\ nm_pc = "call"
    /\ out = NoResult
    /\ prev = NoCall
    /\ InitExport

\* The body of make_fs_key runs: it returns a label or an assertion fails.
MakeFsKey ==
    /\ nm_pc = "call"
    /\ out' = make_fs_key(in_structure, in_hemisphere)
    /\ nm_pc' = IF out'.ok THEN "returned" ELSE "failed"
    /\ UNCHANGED <<in_structure, in_hemisphere, prev>>
    /\ UNCHANGED ex_vars

\* After a call that returned, the caller calls make_fs_key a second time and
\* remembers the first call: its arguments in lower case and its label.
CallAgain(s, h) ==
    /\ nm_pc = "returned"
    /\ prev = NoCall
    /\ prev' = [structure |-> lower(in_structure),
                hemisphere |-> IF in_hemisphere # None THEN lower(in_hemisphere)
                               ELSE None,
                label |-> out.label]
    /\ in_structure' = s
    /\ in_hemisphere' = h
    /\ nm_pc' = "call"
    /\ out' = NoResult
    /\ UNCHANGED ex_vars

NextNamer ==
    \/ MakeFsKey
    \/ \E s \in StructureInputs, h \in HemisphereInputs : CallAgain(s, h)

SpecNamer == InitNamer /\ [][NextNamer]_vars


(***************************************************************************)
(* Callers of export_cifti_mapping                                         *)
(***************************************************************************)

\* make_fs_key is not called.
NamerIdle ==
    /\ in_structure = None
    /\ in_hemisphere = None
    /\ nm_pc = "idle"
    /\ out = NoResult
    /\ prev = NoCall

InitExporter == InitExport /\ NamerIdle

NextExport ==
    \/ \E t \in Threads, a \in ImageArgs : Call(t, a) /\ UNCHANGED nm_vars
    \/ \E t \in Threads : System(t) /\ UNCHANGED nm_vars
    \/ \E t \in Threads, i \in DOMAIN FileNames, status \in {0, 1} :
          ToolExit(t, i, status) /\ UNCHANGED nm_vars
    \/ \E t \in Threads : ReadTable(t) /\ UNCHANGED nm_vars

SpecExport == InitExporter /\ [][NextExport]_vars

(***************************************************************************)
(* Properties of make_fs_key                                               *)
(***************************************************************************)

\* The structure names as a set.
StructureNames == {structures[i] : i \in DOMAIN structures}

brain_stem == <<"b", "r", "a", "i", "n", "_", "s", "t", "e", "m">>

\* x is s in some letter-casing.
IsCasingOf(x, s) ==
    /\ Len(x) = Len(s)
    /\ \A i \in DOMAIN s : x[i] \in {s[i], AsciiCap(s[i])}

\* x with every ASCII letter capital.
AllCaps(x) == [i \in DOMAIN x |-> AsciiCap(x[i])]

\* The name, as written in the tables, that x is a casing of (None if x is
\* no casing of a name in names).
Canon(x, names) ==
    IF \E n \in names : IsCasingOf(x, n)
    THEN CHOOSE n \in names : IsCasingOf(x, n)
    ELSE None

IsStructure(x) == \E s \in StructureNames : IsCasingOf(x, s)
IsBrainStem(x) == IsCasingOf(x, brain_stem)
IsSide(x) == IsCasingOf(x, left) \/ IsCasingOf(x, right)

\* C1: for every structure other than brain_stem, every hemisphere left or
\* right, in every letter-casing, make_fs_key returns the structure in
\* capitals, an underscore, and the hemisphere in capitals; for brain_stem in
\* every casing with no hemisphere it returns BRAIN_STEM.
C1_KeyOfValidPair ==
    nm_pc # "call" =>
        /\ (IsStructure(in_structure) /\ ~IsBrainStem(in_structure)
                /\ IsSide(in_hemisphere))
           => /\ nm_pc = "returned"
              /\ out.ok
              /\ out.label = AllCaps(in_structure) \o <<"_">> \o AllCaps(in_hemisphere)
        /\ (IsBrainStem(in_structure) /\ in_hemisphere = None)
           => /\ nm_pc = "returned"
              /\ out.ok
              /\ out.label = <<"B", "R", "A", "I", "N", "_", "S", "T", "E", "M">>

\* make_fs_key(brain_stem in some casing, None) returned BRAIN_STEM and then
\* make_fs_key('cOrTeX', 'LEFT') returned CORTEX_LEFT.
C1_Witness ==
    /\ prev.structure = brain_stem
    /\ prev.hemisphere = None
    /\ prev.label = <<"B", "R", "A", "I", "N", "_", "S", "T", "E", "M">>
    /\ nm_pc = "returned"
    /\ in_structure = <<"c", "O", "r", "T", "e", "X">>
    /\ in_hemisphere = <<"L", "E", "F", "T">>
    /\ out.label = <<"C", "O", "R", "T", "E", "X", "_", "L", "E", "F", "T">>

\* C2: every label make_fs_key returns is one of the 21 names of
\* freesurfer_structures.
C2_LabelIsCanonical ==
    nm_pc = "returned" => out.ok /\ In(out.label, freesurfer_structures)

\* make_fs_key('pUtAmEn', 'right') returned PUTAMEN_RIGHT.
C2_Witness ==
    /\ nm_pc = "returned"
    /\ in_structure = <<"p", "U", "t", "A", "m", "E", "n">>
    /\ in_hemisphere = right
    /\ out.label = <<"P", "U", "T", "A", "M", "E", "N", "_", "R", "I", "G", "H", "T">>
    /\ Len(freesurfer_structures) = 21

\* The four cases in which the validation must reject the arguments.
UnknownStructure == ~IsStructure(in_structure)
UnknownHemisphere == in_hemisphere # None /\ ~IsSide(in_hemisphere)
MissingHemisphere == in_hemisphere = None /\ ~IsBrainStem(in_structure)
BrainStemWithSide == IsSide(in_hemisphere) /\ IsBrainStem(in_structure)

\* C3: make_fs_key fails on an assertion, returning no label, when the
\* structure is unknown, when the hemisphere is neither left, right nor
\* absent, when the hemisphere is absent and the structure is not brain_stem,
\* and when the hemisphere is left or right and the structure is brain_stem.
C3_InvalidInputFails ==
    (/\ nm_pc # "call"
     /\ \/ UnknownStructure
        \/ UnknownHemisphere
        \/ MissingHemisphere
        \/ BrainStemWithSide)
    => /\ nm_pc = "failed"
       /\ ~out.ok
       /\ out.label = None
       /\ out.line \in {58, 61, 64, 67}

\* make_fs_key('brain_stem', 'left') failed on the assertion of line 64.
C3_Witness ==
    /\ nm_pc = "failed"
    /\ in_structure = brain_stem
    /\ in_hemisphere = left
    /\ out.line = 64
    /\ out.label = None

\* The (structure, hemisphere) pairs make_fs_key accepts, up to letter-casing.
AcceptedPairs ==
    { <<Canon(s, StructureNames), Canon(h, {left, right})>> :
        <<s, h>> \in { p \in StructureInputs \X HemisphereInputs :
                         make_fs_key(p[1], p[2]).ok } }

\* The labels make_fs_key returns over all the inputs.
ReturnedLabels ==
    { make_fs_key(p[1], p[2]).label :
        p \in { q \in StructureInputs \X HemisphereInputs :
                  make_fs_key(q[1], q[2]).ok } }

\* C10: make_fs_key, on the inputs it accepts taken up to letter-casing, is a
\* bijection onto freesurfer_structures: 21 accepted pairs, two calls that
\* returned on distinct pairs returned distinct labels, and every one of the
\* 21 labels is returned.
C10_Bijection ==
    /\ Cardinality(AcceptedPairs) = 21
    /\ ReturnedLabels = {freesurfer_structures[i] : i \in DOMAIN freesurfer_structures}
    /\ Cardinality(ReturnedLabels) = 21
    /\ (/\ nm_pc = "returned"
        /\ prev # NoCall
        /\ <<Canon(prev.structure, StructureNames), Canon(prev.hemisphere, {left, right})>>
             # <<Canon(in_structure, StructureNames), Canon(in_hemisphere, {left, right})>>)
       => out.label # prev.label

\* make_fs_key('cortex', 'left') returned, then make_fs_key('CORTEX', 'RIGHT')
\* returned another label.
C10_Witness ==
    /\ prev.structure = <<"c", "o", "r", "t", "e", "x">>
    /\ prev.hemisphere = left
    /\ prev.label = <<"C", "O", "R", "T", "E", "X", "_", "L", "E", "F", "T">>
    /\ nm_pc = "returned"
    /\ in_structure = <<"C", "O", "R", "T", "E", "X">>
    /\ in_hemisphere = <<"R", "I", "G", "H", "T">>
    /\ out.label = <<"C", "O", "R", "T", "E", "X", "_", "R", "I", "G", "H", "T">>

(***************************************************************************)
(* Properties of export_cifti_mapping                                      *)
(***************************************************************************)

\* The exit statuses of the wb_command runs of the call of thread t so far.
Statuses(t) ==
    {log[t][k].info : k \in {j \in DOMAIN log[t] : log[t][j].ev = "exit"}}

\* C4: a call that returns gives a mapping with the three keys cortex_left,
\* cortex_right and subcortex; each table has one row per line the file held
\* when it was read, keyed by the first field of the line, the other fields
\* under the columns vertex (cortex) or structure, mni_i, mni_j, mni_k
\* (subcortex).
C4_TablesMatchFiles ==
    \A t \in Threads :
        pc[t].at = "returned" =>
            /\ DOMAIN maps[t] = {"cortex_left", "cortex_right", "subcortex"}
            /\ maps[t]["subcortex"].columns = <<"structure", "mni_i", "mni_j", "mni_k">>
            /\ maps[t]["cortex_left"].columns = <<"vertex">>
            /\ maps[t]["cortex_right"].columns = <<"vertex">>
            /\ \A i \in DOMAIN Keys :
                 LET table == maps[t][Keys[i]]
                     lines == ToolOutput(table.image, i)
                 IN  /\ Len(table.rows) = Len(lines)
                     /\ \A k \in DOMAIN lines :
                          /\ table.rows[k].index = lines[k][1]
                          /\ Len(table.rows[k].values) = Len(table.columns)
                          /\ \A n \in DOMAIN table.columns :
                               table.rows[k].values[n] = lines[k][n + 1]

\* A call on the default image returned tables of 2, 3 and 1 rows for the
\* left cortex, the right cortex and the subcortex, all written by itself.
C4_Witness ==
    \E t \in Threads :
        /\ pc[t].at = "returned"
        /\ image[t] = parcel_labels_lr
        /\ \A k \in DOMAIN maps[t] : maps[t][k].by = id[t]
        /\ Len(maps[t]["cortex_left"].rows) = 2
        /\ Len(maps[t]["cortex_right"].rows) = 3
        /\ Len(maps[t]["subcortex"].rows) = 1
        /\ maps[t]["cortex_right"].rows[3] = [index |-> 4, values |-> <<3>>]

\* C5: in a sequence of calls, a call one of whose wb_command runs exited
\* with a nonzero status (having written no file) does not return a mapping:
\* it ends on the error of a table that cannot be parsed, a missing file or
\* a malformed content.
C5_ToolFailureFailsCall ==
    \A t \in Threads :
        (/\ ~overlap
         /\ pc[t].at \in {"returned", "failed"}
         /\ Statuses(t) # {0})
        => /\ pc[t].at = "failed"
           /\ raised[t] \in {"FileNotFoundError", "ParserError"}

\* C6: when no two calls overlap, every table of the mapping a call returns
\* was parsed from content written by that call's own wb_command runs, for
\* that call's image.
C6_TablesAreFresh ==
    \A t \in Threads :
        (~overlap /\ pc[t].at = "returned") =>
            \A k \in DOMAIN maps[t] :
                /\ maps[t][k].by = id[t]
                /\ maps[t][k].image = image[t]

\* C7: the file names are the same for every call and nothing orders one
\* call's reads against the other's writes: what a call is about to read is
\* whatever a tool of any call wrote last under that name, and while the
\* other call's tool is running both the read and the tool's exit can come
\* first.
C7_ReadsSeeLatestWrite ==
    \A t \in Threads :
        pc[t].at = "read" =>
            /\ files[path(id[t], FileNames[pc[t].file])] = latest[pc[t].file]
            /\ \A u \in Threads \ {t} :
                 <<u, pc[t].file>> \in tools =>
                    /\ ENABLED ReadTable(t)
                    /\ ENABLED ToolExit(u, pc[t].file, 0)

\* Two overlapping calls on different images, the wb_command runs of the
\* first all exiting with status 0: the first returned a table parsed from a
\* file the other call's tool wrote for the other image.
C7_Witness ==
    \E t \in Threads, u \in Threads :
        /\ t # u
        /\ overlap
        /\ image[t] # image[u]
        /\ pc[t].at = "returned"
        /\ Statuses(t) = {0}
        /\ \E k \in DOMAIN maps[t] :
             /\ maps[t][k].by = id[u]
             /\ maps[t][k].image = image[u]

\* The steps of one call, in order.
ExpectedEvents ==
    <<"run", "exit", "run", "exit", "run", "exit", "read", "read", "read">>

\* The file each step of one call is about.
ExpectedFiles ==
    <<"volume.txt", "volume.txt", "left.txt", "left.txt", "right.txt",
      "right.txt", "volume.txt", "left.txt", "right.txt">>

\* C8: one call runs wb_command three times, on volume.txt, left.txt and
\* right.txt in this order, each run begun after the previous one has exited,
\* all on the image given (the default one when none is given); it reads no
\* file before the third run has exited, then reads volume.txt, left.txt and
\* right.txt in this order; nothing is run or read twice.
C8_OrderOfSteps ==
    \A t \in Threads :
        /\ Len(log[t]) <= Len(ExpectedEvents)
        /\ \A k \in DOMAIN log[t] :
             /\ log[t][k].ev = ExpectedEvents[k]
             /\ FileNames[log[t][k].file] = ExpectedFiles[k]
             /\ log[t][k].ev = "run" =>
                  log[t][k].info = IF arg[t] = "None" THEN parcel_labels_lr
                                   ELSE arg[t]
        /\ pc[t].at = "returned" => Len(log[t]) = Len(ExpectedEvents)
        /\ pc[t].at = "failed" =>
             /\ Len(log[t]) > 6
             /\ log[t][Len(log[t])].info = "FileNotFoundError"
        /\ pc[t].at = "read" => Len(log[t]) = 5 + pc[t].file

\* A call without image returned after its nine steps; its run on left.txt
\* exited with a nonzero status and was not repeated.
C8_Witness ==
    \E t \in Threads :
        /\ pc[t].at = "returned"
        /\ arg[t] = "None"
        /\ Len(log[t]) = 9
        /\ log[t][1] = [ev |-> "run", file |-> 1, info |-> parcel_labels_lr]
        /\ log[t][4] = [ev |-> "exit", file |-> 2, info |-> 1]

\* C9: export_cifti_mapping removes and empties no file.  A step of a call
\* that is reading its tables, whether the table is loaded, the mapping is
\* returned or the parse failure is raised, leaves every file of the
\* temporary directory as it was; and from the moment a call begins to read
\* until it ends, every file that exists goes on existing, with the same
\* content as long as no other call overlaps.
C9_ReadingKeepsFiles ==
    [][\A t \in Threads :
          pc[t].at = "read" =>
              /\ pc'[t] # pc[t] => files' = files
              /\ \A p \in DOMAIN files : files[p] # Absent => files'[p] # Absent
              /\ ~overlap' => files' = files]_vars

\* A call ended on a parse failure (left.txt missing) after it had loaded
\* volume.txt; volume.txt and right.txt, written by its own tool, are
\* still there.
C9_Witness ==
    \E t \in Threads :
        /\ pc[t] = At("failed", 2)
        /\ raised[t] = "FileNotFoundError"
        /\ files["volume.txt"].by = id[t]
        /\ files["right.txt"].by = id[t]
        /\ files["left.txt"] = Absent

====
